---------------------------- MODULE Spec2Model ----------------------------
(***************************************************************************)
(* A model of datumbrain/npy: the single-array codec (Write, Read,         *)
(* generateHeader, parseHeader, readData) and the NPZ container            *)
(* (NewNPZFile, Add, Get, Keys, WriteNPZFile, ReadNPZFile).                *)
(*                                                                         *)
(* Representation.  A Go string and a []byte are both sequences of bytes   *)
(* (integers 0..255).  A slice is a sequence together with a nil flag (the *)
(* code tests Data == nil and Shape == nil).  An element of one of the     *)
(* eleven fixed-size element types is represented by its in-memory image:  *)
(* the little-endian sequence of sizeof(T) bytes that encoding/binary      *)
(* writes for it (two's complement for integers, the IEEE-754 bits for     *)
(* floats, 0 or 1 for a bool).  A pointer result (to an Array[T] or to an  *)
(* NPZFile) is a sequence of length 0 (nil) or 1.  An error is a string,   *)
(* "" for nil.                                                             *)
(***************************************************************************)
EXTENDS Integers, Sequences, FiniteSets, TLC

(***************************************************************************)
(* Bounds of the model.                                                    *)
(***************************************************************************)
\* the largest number of dimensions of an enumerated shape
MaxDims == 2
\* the largest length of an enumerated Data slice
MaxLen == 2
\* the number of trailing dimensions of the one very long shape (HugeShape)
HugeDims == 21830

\* the dimension values enumerated shapes are built from
DimValues == {0, 2, 10}

(***************************************************************************)
(* Bytes and text.                                                         *)
(***************************************************************************)
\* the printable characters 32..95 and 97..126, in code order
AsciiLo == " !\"#$%&'()*+,-./0123456789:;<=>?@ABCDEFGHIJKLMNOPQRSTUVWXYZ[\\]^_"
AsciiHi == "abcdefghijklmnopqrstuvwxyz{|}~"

\* the byte of a one-character string
Ord(c) ==
    IF \E i \in 1..Len(AsciiLo) : SubSeq(AsciiLo, i, i) = c
    THEN 31 + CHOOSE i \in 1..Len(AsciiLo) : SubSeq(AsciiLo, i, i) = c
    ELSE 96 + CHOOSE i \in 1..Len(AsciiHi) : SubSeq(AsciiHi, i, i) = c

\* []byte(s) for a string literal s
Bytes(s) == [i \in 1..Len(s) |-> Ord(SubSeq(s, i, i))]

NL == 10
SP == 32

\* strings.Repeat(" ", n)
Spaces(n) == [i \in 1..n |-> SP]

\* the concatenation of a sequence of byte strings (what a run of
\* s += piece builds), split in halves so that a long run stays shallow
RECURSIVE ConcatRange(_, _, _)
ConcatRange(ps, lo, hi) ==
    IF lo > hi THEN <<>>
    ELSE IF lo = hi THEN ps[lo]
    ELSE LET mid == (lo + hi) \div 2
         IN  ConcatRange(ps, lo, mid) \o ConcatRange(ps, mid + 1, hi)

Concat(ps) == ConcatRange(ps, 1, Len(ps))

\* the decimal digits of n >= 0, most significant first
RECURSIVE Digits(_)
Digits(n) == IF n < 10 THEN <<48 + n>> ELSE Append(Digits(n \div 10), 48 + (n % 10))

\* strconv.Itoa
Itoa(n) == IF n < 0 THEN <<45>> \o Digits(0 - n) ELSE Digits(n)

\* the other string literals of the source, as bytes
Lit ==
    [commaSpace |-> Bytes(", "),
     lparen |-> Bytes("("),
     comma |-> Bytes(","),
     rparen |-> Bytes(")"),
     true |-> Bytes("True"),
     false |-> Bytes("False"),
     hdrDescr |-> Bytes("{'descr': '"),
     hdrFortran |-> Bytes("', 'fortran_order': "),
     hdrShape |-> Bytes(", 'shape': "),
     hdrClose |-> Bytes(", }"),
     numpy |-> Bytes("NUMPY"),
     keyShape |-> Bytes("'shape':"),
     keyDescr |-> Bytes("'descr':"),
     quote |-> Bytes("'"),
     keyFortran |-> Bytes("'fortran_order':")]


(***************************************************************************)
(* Element types.  A Go element type is named by its Go name; the DType    *)
(* constants of the package are the strings of the same spelling.          *)
(***************************************************************************)
Bool == "bool"
Int8 == "int8"
Int16 == "int16"
Int32 == "int32"
Int64 == "int64"
Uint8 == "uint8"
Uint16 == "uint16"
Uint32 == "uint32"
Uint64 == "uint64"
Float32 == "float32"
Float64 == "float64"

DTypes == {Bool, Int8, Int16, Int32, Int64, Uint8, Uint16, Uint32, Uint64, Float32, Float64}

\* the Go element types an Array[T] is instantiated with here
ElemTypes == {"bool", "int8", "int16", "int32", "int64",
              "uint8", "uint16", "uint32", "uint64", "float32", "float64"}

\* the size encoding/binary gives one element of type T
sizeof(T) ==
    CASE T \in {"bool", "int8", "uint8"} -> 1
      [] T \in {"int16", "uint16"} -> 2
      [] T \in {"int32", "uint32", "float32"} -> 4
      [] T \in {"int64", "uint64", "float64"} -> 8

\* binary.LittleEndian.PutUintN: the w-byte little-endian image of n
RECURSIVE LittleEndian(_, _)
LittleEndian(w, n) ==
    IF w = 0 THEN <<>> ELSE <<n % 256>> \o LittleEndian(w - 1, n \div 256)

\* the value of a little-endian byte string (for the 2- and 4-byte length fields)
RECURSIVE LEValue(_)
LEValue(b) == IF b = <<>> THEN 0 ELSE b[1] + 256 * LEValue(Tail(b))

\* binary.Write of one element: a bool is written as 1 or 0, every other
\* type as its little-endian bytes
PutElem(T, v) == IF T = "bool" THEN <<IF v[1] # 0 THEN 1 ELSE 0>> ELSE v

\* binary.Read of one element from sizeof(T) bytes: a bool is b != 0
GetElem(T, b) == IF T = "bool" THEN <<IF b[1] # 0 THEN 1 ELSE 0>> ELSE b

(***************************************************************************)
(* Array[T] and header.                                                    *)
(***************************************************************************)
\* Array[T]{Data, Shape, DType, Fortran}; T is the type parameter
MkArray(T, data, dataNil, shape, shapeNil, dtype, fortran) ==
    [T |-> T, Data |-> data, DataNil |-> dataNil, Shape |-> shape,
     ShapeNil |-> shapeNil, DType |-> dtype, Fortran |-> fortran]

\* totalElements := 1; for _, dim := range shape { totalElements *= dim }
\* (the product of shape[lo..hi], split in halves so that a long shape stays
\* shallow; multiplication is associative)
RECURSIVE ProductRange(_, _, _)
ProductRange(shape, lo, hi) ==
    IF lo > hi THEN 1
    ELSE IF lo = hi THEN shape[lo]
    ELSE LET mid == (lo + hi) \div 2
         IN  ProductRange(shape, lo, mid) * ProductRange(shape, mid + 1, hi)

totalElements(shape) == ProductRange(shape, 1, Len(shape))

\* the descr token generateHeader emits for each DType
descrTokens ==
    [bool |-> Bytes("|b1"),
     int8 |-> Bytes("|i1"),
     int16 |-> Bytes("<i2"),
     int32 |-> Bytes("<i4"),
     int64 |-> Bytes("<i8"),
     uint8 |-> Bytes("|u1"),
     uint16 |-> Bytes("<u2"),
     uint32 |-> Bytes("<u4"),
     uint64 |-> Bytes("<u8"),
     float32 |-> Bytes("<f4"),
     float64 |-> Bytes("<f8")]

\* the typeChar parseHeader accepts for each DType
typeChars ==
    [bool |-> Bytes("b1"),
     int8 |-> Bytes("i1"),
     int16 |-> Bytes("i2"),
     int32 |-> Bytes("i4"),
     int64 |-> Bytes("i8"),
     uint8 |-> Bytes("u1"),
     uint16 |-> Bytes("u2"),
     uint32 |-> Bytes("u4"),
     uint64 |-> Bytes("u8"),
     float32 |-> Bytes("f4"),
     float64 |-> Bytes("f8")]

(***************************************************************************)
(* generateHeader.                                                         *)
(***************************************************************************)
\* a switch that emits every token with the little-endian marker
dtypeStrOfLittleEndian(dtype) ==
    IF dtype \in DTypes THEN <<60>> \o typeChars[dtype] ELSE descrTokens.float64

\* the switch of generateHeader on arr.DType, with its default branch
dtypeStrOf(dtype) ==
    CASE dtype = Bool -> descrTokens.bool
      [] dtype = Int8 -> descrTokens.int8
      [] dtype = Int16 -> descrTokens.int16
      [] dtype = Int32 -> descrTokens.int32
      [] dtype = Int64 -> descrTokens.int64
      [] dtype = Uint8 -> descrTokens.uint8
      [] dtype = Uint16 -> descrTokens.uint16
      [] dtype = Uint32 -> descrTokens.uint32
      [] dtype = Uint64 -> descrTokens.uint64
      [] dtype = Float32 -> descrTokens.float32
      [] dtype = Float64 -> descrTokens.float64
      [] OTHER -> descrTokens.float64

\* the piece the shape loop appends for dimension i
shapePiece(shape, i) == (IF i > 1 THEN Lit.commaSpace ELSE <<>>) \o Itoa(shape[i])

\* shapeStr of generateHeader: "(" + dims joined by ", " + "," for zero or
\* one dimension + ")"
shapeStrOf(shape) ==
    Lit.lparen
    \o Concat([i \in 1..Len(shape) |-> shapePiece(shape, i)])
    \o (IF Len(shape) = 0 THEN Lit.comma
        ELSE IF Len(shape) = 1 THEN Lit.comma ELSE <<>>)
    \o Lit.rparen

fortranStrOf(fortran) == IF fortran THEN Lit.true ELSE Lit.false

\* fmt.Sprintf("{'descr': '%s', 'fortran_order': %s, 'shape': %s, }", ...)
generateHeader(arr) ==
    Lit.hdrDescr \o dtypeStrOf(arr.DType)
    \o Lit.hdrFortran \o fortranStrOf(arr.Fortran)
    \o Lit.hdrShape \o shapeStrOf(arr.Shape)
    \o Lit.hdrClose

(***************************************************************************)
(* Write.                                                                  *)
(***************************************************************************)
\* "\x93NUMPY"
Magic == <<147>> \o Lit.numpy

\* a padding that adds nothing to a header text already on a 16-byte boundary
paddingLenNoFullBlock(n) == (16 - ((10 + n) % 16)) % 16

\* paddingLen of Write for a header text of n bytes
paddingLen(n) ==
    LET p == 16 - ((10 + n) % 16)
    IN  IF p < 1 THEN p + 16 ELSE p

\* headerStr += strings.Repeat(" ", paddingLen-1) + "\n"
paddedHeader(h) == h \o Spaces(paddingLen(Len(h)) - 1) \o <<NL>>

\* uint16(n)
uint16(n) == n % 65536

\* binary.Write(w, binary.LittleEndian, arr.Data): the elements in slice order
dataBytes(arr) == Concat([i \in 1..Len(arr.Data) |-> PutElem(arr.T, arr.Data[i])])

\* a validation that compares the lengths and nothing else
validateLengthOnly(arr) ==
    IF Len(arr.Data) # totalElements(arr.Shape)
    THEN "data length does not match shape dimensions"
    ELSE ""

\* the validation at the head of Write: the error it returns, "" for none
validate(arr) ==
    IF arr.DataNil THEN "array data is nil"
    ELSE IF arr.ShapeNil THEN "array shape is nil"
    ELSE IF arr.DType = "" THEN "array dtype is empty"
    ELSE IF Len(arr.Data) # totalElements(arr.Shape)
    THEN "data length does not match shape dimensions"
    ELSE ""

\* Write on a writer that accepts every byte: the error returned and the
\* bytes written
Write(arr) ==
    LET emit(headerStr) ==
            [err |-> "",
             out |-> Magic \o <<1>> \o <<0>>
                     \o LittleEndian(2, uint16(Len(headerStr)))
                     \o headerStr \o dataBytes(arr)]
        checked(err) ==
            IF err # "" THEN [err |-> err, out |-> <<>>]
            ELSE emit(paddedHeader(generateHeader(arr)))
    IN  checked(validate(arr))

(***************************************************************************)
(* parseHeader.  Each regular expression is modelled by what Go's regexp   *)
(* returns for it: the leftmost match, greedy within it.                   *)
(***************************************************************************)
\* \s of Go's regexp: [\t\n\f\r ]
WS == {9, 10, 12, 13, 32}
\* \d
DIGIT == 48..57
\* [\d,\s]
ShapeClass == DIGIT \cup {44} \cup WS
\* what strings.TrimSpace removes among the bytes below 0x80
TrimSet == {9, 10, 11, 12, 13, 32}

Min(S) == CHOOSE x \in S : \A y \in S : x <= y
Max(S) == CHOOSE x \in S : \A y \in S : x >= y

\* whether the literal lit occurs in s at position p
MatchLit(s, p, lit) == p >= 1 /\ p + Len(lit) - 1 <= Len(s) /\ SubSeq(s, p, p + Len(lit) - 1) = lit

\* the first position >= p of s whose byte is not in class (Len(s)+1 if none)
RECURSIVE SkipWhile(_, _, _)
SkipWhile(s, p, class) ==
    IF p > Len(s) \/ s[p] \notin class THEN p ELSE SkipWhile(s, p + 1, class)

\* the first position >= p of s whose byte is in class (Len(s)+1 if none)
RECURSIVE IndexFrom(_, _, _)
IndexFrom(s, p, class) ==
    IF p > Len(s) \/ s[p] \in class THEN p ELSE IndexFrom(s, p + 1, class)

\* regexp `{.*}`: from a "{" at i, the last "}" before the end of the line (0 if none)
dictEnd(s, i) ==
    LET eol == IndexFrom(s, i + 1, {NL})
        closes == {j \in (i + 1)..(eol - 1) : s[j] = 125}
    IN  IF closes = {} THEN 0 ELSE Max(closes)

\* re.FindString(headerStr) for `{.*}`: "" when there is no match
dictStrOf(s) ==
    LET starts == {i \in 1..Len(s) : s[i] = 123 /\ dictEnd(s, i) > 0}
    IN  IF starts = {} THEN <<>>
        ELSE LET i == Min(starts) IN SubSeq(s, i, dictEnd(s, i))

\* regexp `'shape':\s*\(([\d,\s]*)\)` anchored at p: the positions of "(" and ")"
shapeOpen(s, p) == SkipWhile(s, p + 8, WS)
shapeClose(s, p) == SkipWhile(s, shapeOpen(s, p) + 1, ShapeClass)
shapeMatchAt(s, p) ==
    /\ MatchLit(s, p, Lit.keyShape)
    /\ MatchLit(s, shapeOpen(s, p), Lit.lparen)
    /\ MatchLit(s, shapeClose(s, p), Lit.rparen)

\* shapeRe.FindStringSubmatch(dictStr): <<>> for no match, else <<group 1>>
shapeMatch(s) ==
    LET starts == {p \in 1..Len(s) : shapeMatchAt(s, p)}
    IN  IF starts = {} THEN <<>>
        ELSE LET p == Min(starts)
             IN  <<SubSeq(s, shapeOpen(s, p) + 1, shapeClose(s, p) - 1)>>

\* regexp `'descr':\s*'([^']*)'` anchored at p
descrOpen(s, p) == SkipWhile(s, p + 8, WS)
descrClose(s, p) == IndexFrom(s, descrOpen(s, p) + 1, {39})
descrMatchAt(s, p) ==
    /\ MatchLit(s, p, Lit.keyDescr)
    /\ MatchLit(s, descrOpen(s, p), Lit.quote)
    /\ descrClose(s, p) <= Len(s)

\* dtypeRe.FindStringSubmatch(dictStr)
descrMatch(s) ==
    LET starts == {p \in 1..Len(s) : descrMatchAt(s, p)}
    IN  IF starts = {} THEN <<>>
        ELSE LET p == Min(starts)
             IN  <<SubSeq(s, descrOpen(s, p) + 1, descrClose(s, p) - 1)>>

\* regexp `'fortran_order':\s*(True|False)` anchored at p
fortranAt(s, p) == SkipWhile(s, p + 16, WS)
fortranMatchAt(s, p) ==
    /\ MatchLit(s, p, Lit.keyFortran)
    /\ \/ MatchLit(s, fortranAt(s, p), Lit.true)
       \/ MatchLit(s, fortranAt(s, p), Lit.false)

\* a match of fortranRe that takes False when the field is not there
fortranMatchDefaultFalse(s) ==
    LET starts == {p \in 1..Len(s) : fortranMatchAt(s, p)}
    IN  IF starts = {} THEN <<Lit.false>>
        ELSE LET p == Min(starts)
             IN  IF MatchLit(s, fortranAt(s, p), Lit.true)
                 THEN <<Lit.true>> ELSE <<Lit.false>>

\* fortranRe.FindStringSubmatch(dictStr)
fortranMatch(s) ==
    LET starts == {p \in 1..Len(s) : fortranMatchAt(s, p)}
    IN  IF starts = {} THEN <<>>
        ELSE LET p == Min(starts)
             IN  IF MatchLit(s, fortranAt(s, p), Lit.true)
                 THEN <<Lit.true>> ELSE <<Lit.false>>

\* strings.Split(s, ",")
RECURSIVE Split(_)
Split(s) ==
    LET k == IndexFrom(s, 1, {44})
    IN  IF k > Len(s) THEN <<s>>
        ELSE <<SubSeq(s, 1, k - 1)>> \o Split(SubSeq(s, k + 1, Len(s)))

\* strings.TrimSpace
RECURSIVE TrimRight(_)
TrimRight(s) ==
    IF s # <<>> /\ s[Len(s)] \in TrimSet THEN TrimRight(SubSeq(s, 1, Len(s) - 1)) ELSE s
TrimSpace(s) == TrimRight(SubSeq(s, SkipWhile(s, 1, TrimSet), Len(s)))

\* strconv.Atoi on a part of the shape group (digits and white space only):
\* ok is false for anything but a run of digits
RECURSIVE DigitsValue(_)
DigitsValue(s) ==
    IF s = <<>> THEN 0 ELSE 10 * DigitsValue(SubSeq(s, 1, Len(s) - 1)) + (s[Len(s)] - 48)
Atoi(s) ==
    IF s # <<>> /\ \A i \in 1..Len(s) : s[i] \in DIGIT
    THEN [ok |-> TRUE, n |-> DigitsValue(s)]
    ELSE [ok |-> FALSE, n |-> 0]

\* the loop of parseHeader over shapeParts: the dimensions so far, or the
\* error of the first part that is not a number
RECURSIVE parseShapeParts(_, _)
parseShapeParts(parts, acc) ==
    IF parts = <<>> THEN [ok |-> TRUE, shape |-> acc]
    ELSE LET part == TrimSpace(parts[1])
         IN  IF part = <<>> THEN parseShapeParts(Tail(parts), acc)
             ELSE IF ~Atoi(part).ok THEN [ok |-> FALSE, shape |-> <<>>]
             ELSE parseShapeParts(Tail(parts), Append(acc, Atoi(part).n))

\* a switch whose default branch falls back to float64
dtypeOfWithDefault(typeChar) ==
    CASE typeChar = typeChars.bool -> Bool
      [] typeChar = typeChars.int8 -> Int8
      [] typeChar = typeChars.int16 -> Int16
      [] typeChar = typeChars.int32 -> Int32
      [] typeChar = typeChars.int64 -> Int64
      [] typeChar = typeChars.uint8 -> Uint8
      [] typeChar = typeChars.uint16 -> Uint16
      [] typeChar = typeChars.uint32 -> Uint32
      [] typeChar = typeChars.uint64 -> Uint64
      [] typeChar = typeChars.float32 -> Float32
      [] OTHER -> Float64

\* the switch of parseHeader on typeChar := dtypeStr[1:]; "" when the token
\* is not recognised
dtypeOf(typeChar) ==
    CASE typeChar = typeChars.bool -> Bool
      [] typeChar = typeChars.int8 -> Int8
      [] typeChar = typeChars.int16 -> Int16
      [] typeChar = typeChars.int32 -> Int32
      [] typeChar = typeChars.int64 -> Int64
      [] typeChar = typeChars.uint8 -> Uint8
      [] typeChar = typeChars.uint16 -> Uint16
      [] typeChar = typeChars.uint32 -> Uint32
      [] typeChar = typeChars.uint64 -> Uint64
      [] typeChar = typeChars.float32 -> Float32
      [] typeChar = typeChars.float64 -> Float64
      [] OTHER -> ""

NoHeader == [Shape |-> <<>>, DType |-> "", Fortran |-> FALSE]
headerErr(msg) == [err |-> msg, hdr |-> NoHeader]

\* parseHeader: the error ("" for nil) and the header
parseHeader(headerStr) ==
    LET steps(dictStr, shapeMatched, dims, dtypeMatch, dtype, fortranMatched) ==
            IF dictStr = <<>> THEN headerErr("invalid header format")
            ELSE IF shapeMatched = <<>> THEN headerErr("shape not found in header")
            ELSE IF ~dims.ok THEN headerErr("invalid shape dimension")
            ELSE IF dtypeMatch = <<>> THEN headerErr("dtype not found in header")
            ELSE IF Len(dtypeMatch[1]) < 2 THEN headerErr("invalid dtype format")
            ELSE IF dtype = "" THEN headerErr("unsupported dtype")
            ELSE IF fortranMatched = <<>>
            THEN headerErr("fortran_order not found in header")
            ELSE [err |-> "",
                  hdr |-> [Shape |-> dims.shape, DType |-> dtype,
                           Fortran |-> (fortranMatched[1] = Lit.true)]]
        matches(dictStr, shapeMatched, dtypeMatch) ==
            steps(dictStr,
                  shapeMatched, parseShapeParts(Split(shapeMatched[1]), <<>>),
                  dtypeMatch, dtypeOf(SubSeq(dtypeMatch[1], 2, Len(dtypeMatch[1]))),
                  fortranMatch(dictStr))
        inDict(dictStr) == matches(dictStr, shapeMatch(dictStr), descrMatch(dictStr))
    IN  inDict(dictStrOf(headerStr))

(***************************************************************************)
(* readData and Read.  The reader is the stream s and the number of bytes  *)
(* consumed so far; io.ReadFull and binary.Read fail, having consumed what *)
(* is left, when fewer bytes remain than they ask for.                     *)
(***************************************************************************)
\* readData[T]: the error, the elements and the position after the read
readData(T, s, pos, hdr) ==
    LET total == totalElements(hdr.Shape)
        w == sizeof(T)
    IN  IF Len(s) - pos < total * w
        THEN [err |-> "failed to read data", data |-> <<>>, pos |-> Len(s)]
        ELSE [err |-> "",
              data |-> [i \in 1..total |->
                          GetElem(T, SubSeq(s, pos + (i - 1) * w + 1, pos + i * w))],
              pos |-> pos + total * w]

\* a failed Read: nil array; cause is the wrapped error, pos the bytes consumed,
\* parsed whether parseHeader was called
readFail(msg, cause, pos, parsed) ==
    [err |-> msg, cause |-> cause, arr |-> <<>>, pos |-> pos, parsed |-> parsed]

\* the bytes of the header length field for a major version
lenFieldSize(major) == IF major = 1 THEN 2 ELSE 4

\* Read[T] from the header length field on (the stream has at least 8 bytes
\* and a major version of 1 or 2)
readFromLength(T, s) ==
    LET start == 8 + lenFieldSize(s[7])
        headerLen == uint16(LEValue(SubSeq(s, 9, start)))
        withData(hdr, d) ==
            IF d.err # "" THEN readFail("failed to read data", d.err, d.pos, TRUE)
            ELSE [err |-> "", cause |-> "",
                  arr |-> <<MkArray(T, d.data, FALSE, hdr.Shape, FALSE,
                                    hdr.DType, hdr.Fortran)>>,
                  pos |-> d.pos, parsed |-> TRUE]
        withHeader(parsedHdr) ==
            IF parsedHdr.err # ""
            THEN readFail("failed to parse header", parsedHdr.err, start + headerLen, TRUE)
            ELSE withData(parsedHdr.hdr, readData(T, s, start + headerLen, parsedHdr.hdr))
    IN  IF Len(s) < start THEN readFail("failed to read header length", "EOF", Len(s), FALSE)
        ELSE IF Len(s) < start + headerLen
        THEN readFail("failed to read header", "EOF", Len(s), FALSE)
        ELSE withHeader(parseHeader(SubSeq(s, start + 1, start + headerLen)))

\* a Read that goes on to the version whatever the first 6 bytes are
ReadAnyMagic(T, s) ==
    IF Len(s) < 6 THEN readFail("failed to read magic string", "EOF", Len(s), FALSE)
    ELSE IF Len(s) < 7 THEN readFail("failed to read major version", "EOF", 6, FALSE)
    ELSE IF Len(s) < 8 THEN readFail("failed to read minor version", "EOF", 7, FALSE)
    ELSE IF s[7] \notin {1, 2} THEN readFail("unsupported version", "", 8, FALSE)
    ELSE readFromLength(T, s)

\* Read[T](r) for a reader over the bytes s
Read(T, s) ==
    IF Len(s) < 6 THEN readFail("failed to read magic string", "EOF", Len(s), FALSE)
    ELSE IF SubSeq(s, 1, 6) # Magic THEN readFail("invalid magic string", "", 6, FALSE)
    ELSE IF Len(s) < 7 THEN readFail("failed to read major version", "EOF", 6, FALSE)
    ELSE IF Len(s) < 8 THEN readFail("failed to read minor version", "EOF", 7, FALSE)
    ELSE IF s[7] \notin {1, 2} THEN readFail("unsupported version", "", 8, FALSE)
    ELSE readFromLength(T, s)

(***************************************************************************)
(* The inputs: the arrays a caller builds and the streams a reader is      *)
(* given.                                                                  *)
(***************************************************************************)
\* a shape whose header text has 70 bytes, so that 10 + 70 is a multiple of 16
AlignedShape == <<0, 10, 10000000>>

\* the shapes of at most MaxDims dimensions over DimValues, and AlignedShape
Shapes == UNION {[1..n -> DimValues] : n \in 0..MaxDims} \cup {AlignedShape}

\* a shape of HugeDims dimensions of size 1 (one element): its header text is
\* longer than 65535 bytes
HugeShape == [i \in 1..HugeDims |-> 1]

\* n distinct elements of type T: the values 255, 256, ... (true, false, ...
\* for a bool)
SampleData(T, n) ==
    [i \in 1..n |-> IF T = "bool" THEN <<i % 2>> ELSE LittleEndian(sizeof(T), 254 + i)]

\* a recognised tag that does not match T, a tag the package does not know
OtherTag(T) == IF T = "float64" THEN Int32 ELSE Float64
UnknownTag == "complex64"

\* the arrays of element type T
ArraysOf(T) ==
    {MkArray(T, d.v, d.nil, sh.v, sh.nil, dt, f) :
        d \in {[v |-> <<>>, nil |-> TRUE]}
              \cup {[v |-> SampleData(T, n), nil |-> FALSE] : n \in 0..MaxLen},
        sh \in {[v |-> <<>>, nil |-> TRUE]} \cup {[v |-> x, nil |-> FALSE] : x \in Shapes},
        dt \in {T, OtherTag(T), UnknownTag, ""},
        f \in BOOLEAN}

\* the arrays with the very long shape
HugeArrays ==
    {MkArray(T, SampleData(T, 1), FALSE, HugeShape, FALSE, T, FALSE) : T \in {"float64", "uint8"}}

Arrays == UNION {ArraysOf(T) : T \in ElemTypes}

\* the arrays of the runs with the very long shape
LongArrays == HugeArrays \cup ArraysOf("uint8")

\* the texts of the streams that were not produced by Write
Text ==
    [thisI |-> Bytes("This i"),
     numpx |-> Bytes("NUMPX"),
     shape1 |-> Bytes("(1,)"),
     object |-> Bytes("|O"),
     half |-> Bytes("<f2"),
     bare |-> Bytes("f8"),
     bigEndian |-> Bytes(">i4"),
     short |-> Bytes("x"),
     complex |-> Bytes("<c16"),
     descrField |-> Bytes("'descr': '<i4', "),
     fortranField |-> Bytes("'fortran_order': True, "),
     shapeField |-> Bytes("'shape': (2, 0), "),
     noBraces |-> Bytes("'descr': '<i4', 'fortran_order': True, 'shape': (2, 0), "),
     closeOpen |-> Bytes("}'descr': '<i4', 'fortran_order': True, 'shape': (2, 0), {"),
     openOnly |-> Bytes("{'descr': '<i4', 'fortran_order': True, 'shape': (2, 0), ")]
NotMagic == {Text.thisI, <<146>> \o Lit.numpy, <<147>> \o Text.numpx, Lit.numpy \o <<147>>}

CraftedDescrs == {Text.object, Text.half, Text.bare, Text.bigEndian, Text.short, Text.complex, descrTokens.float64, <<>>}

\* descr tokens of three bytes: a first byte among < > | = x, a kind letter
\* among b i u f and a width digit among 1 2 4 8
RegistryTokens == {<<c, k, d>> : c \in {60, 62, 124, 61, 120}, k \in {98, 105, 117, 102},
                                 d \in {49, 50, 52, 56}}

\* a header text in the layout of generateHeader
HeaderText(descr, fortranTxt, shapeTxt) ==
    Lit.hdrDescr \o descr \o Lit.hdrFortran \o fortranTxt \o Lit.hdrShape \o shapeTxt \o Lit.hdrClose

\* a stream: magic, version major.0, the length field, the padded header, data
Envelope(magic, major, header, data) ==
    magic \o <<major, 0>>
    \o LittleEndian(lenFieldSize(major), Len(paddedHeader(header)))
    \o paddedHeader(header) \o data

\* the names of the three fields of the dictionary
FieldNames == {"descr", "fortran_order", "shape"}

\* a dictionary that holds the fields named in F and no other
PartialDict(F) ==
    <<123>>
    \o (IF "descr" \in F THEN Text.descrField ELSE <<>>)
    \o (IF "fortran_order" \in F THEN Text.fortranField ELSE <<>>)
    \o (IF "shape" \in F THEN Text.shapeField ELSE <<>>)
    \o <<125>>

\* header texts in which no "{" is followed by a "}"
NoBraceTexts == {Text.noBraces, Text.closeOpen, Text.openOnly, <<>>}

CraftedStreams ==
    {Envelope(m, major, HeaderText(d, Lit.false, Text.shape1), data) :
        m \in {Magic} \cup NotMagic, major \in {1, 2, 3}, d \in CraftedDescrs,
        data \in {<<>>, LittleEndian(8, 255)}}
    \cup {SubSeq(Envelope(Magic, 1, HeaderText(descrTokens.float64, Lit.false, Text.shape1), <<>>), 1, n) :
            n \in 0..12}
    \cup {Envelope(Magic, major, PartialDict(F), <<>>) : F \in SUBSET FieldNames, major \in {1, 2}}
    \cup {Envelope(Magic, 1, t, <<>>) : t \in NoBraceTexts}
    \cup {Envelope(Magic, 1, HeaderText(tok, Lit.false, Text.shape1), LittleEndian(8, 255)) :
            tok \in RegistryTokens}
    \cup LET h == paddedHeader(HeaderText(descrTokens.float64, Lit.false, Text.shape1))
         IN  {Magic \o <<2, 0>> \o LittleEndian(4, 65536 + n) \o h \o data :
                 n \in {0, Len(h)}, data \in {<<>>, LittleEndian(8, 255)}}

(***************************************************************************)
(* The container.  An NPZFile is its map arrays, from names to arrays of   *)
(* any element type; the archive on disk is the sequence of its members in *)
(* the order they were created.                                            *)
(***************************************************************************)
MaxEntries == 2
MaxMembers == 2

\* strings.HasSuffix, strings.TrimSuffix
HasSuffix(s, suffix) ==
    Len(s) >= Len(suffix) /\ SubSeq(s, Len(s) - Len(suffix) + 1, Len(s)) = suffix
TrimSuffix(s, suffix) ==
    IF HasSuffix(s, suffix) THEN SubSeq(s, 1, Len(s) - Len(suffix)) ELSE s

\* make(map[string]interface{})
EmptyMap == [n \in {} |-> 0]

\* NewNPZFile()
NewNPZFile == [arrays |-> EmptyMap]

\* an Add that keeps the entry a name already has
AddIfAbsent(npz, name, a) ==
    [arrays |-> [n \in DOMAIN npz.arrays \cup {name} |->
                    IF n \in DOMAIN npz.arrays THEN npz.arrays[n] ELSE a]]

\* Add(npz, name, arr): npz.arrays[name] = arr
Add(npz, name, a) ==
    [arrays |-> [n \in DOMAIN npz.arrays \cup {name} |->
                    IF n = name THEN a ELSE npz.arrays[n]]]

\* a Get that returns what is stored under name whatever its element type
GetAnyType(T, npz, name) ==
    IF name \notin DOMAIN npz.arrays THEN [arr |-> <<>>, ok |-> FALSE]
    ELSE [arr |-> <<npz.arrays[name]>>, ok |-> TRUE]

\* Get[T](npz, name): the pointer returned (<<>> for nil) and ok
Get(T, npz, name) ==
    IF name \notin DOMAIN npz.arrays THEN [arr |-> <<>>, ok |-> FALSE]
    ELSE IF npz.arrays[name].T = T THEN [arr |-> <<npz.arrays[name]>>, ok |-> TRUE]
    ELSE [arr |-> <<>>, ok |-> FALSE]

\* the orders in which a range over a map with the keys S may visit them
Orders(S) ==
    {o \in [1..Cardinality(S) -> S] : \A i, j \in 1..Cardinality(S) : o[i] = o[j] => i = j}

\* Keys(npz): the keys in one of the orders of the map iteration
Keys(npz) == Orders(DOMAIN npz.arrays)

\* a member of an archive: its name, whether it is a directory entry, its
\* bytes, and how many times it can be opened before Open fails
Member(name, dir, bytes, opens) ==
    [name |-> name, dir |-> dir, bytes |-> bytes, opens |-> opens]

\* the name of the member WriteNPZFile creates for a key
memberName(key) == IF HasSuffix(key, ".npy") THEN key ELSE key \o ".npy"

\* the loop of WriteNPZFile over the keys in the order of the iteration:
\* the error returned and the members the archive holds when it is closed
RECURSIVE writeMembers(_, _, _, _)
writeMembers(npz, order, i, files) ==
    IF i > Len(order) THEN [err |-> "", cause |-> "", files |-> files]
    ELSE LET name == memberName(order[i])
             array == npz.arrays[order[i]]
             created(w) ==
                 IF w.err # ""
                 THEN [err |-> "failed to write array", cause |-> w.err,
                       files |-> Append(files, Member(name, FALSE, w.out, 2))]
                 ELSE writeMembers(npz, order, i + 1,
                                   Append(files, Member(name, FALSE, w.out, 2)))
         IN  IF array.T \notin ElemTypes
             THEN [err |-> "unsupported array type", cause |-> "",
                   files |-> Append(files, Member(name, FALSE, <<>>, 2))]
             ELSE created(Write(array))

\* the path WriteNPZFile creates
npzPath(path) == IF HasSuffix(path, ".npz") THEN path ELSE path \o ".npz"

\* WriteNPZFile(path, npz) on a file system that accepts the file, for one
\* order of the map iteration
WriteNPZFile(path, npz, order) == writeMembers(npz, order, 1, <<>>)

\* the first pass of ReadNPZFile over a member: the envelope and the header,
\* with no look at the magic bytes
peekHeader(s) ==
    LET start == 8 + lenFieldSize(s[7])
        headerLen == uint16(LEValue(SubSeq(s, 9, start)))
        withHeader(parsedHdr) ==
            IF parsedHdr.err # "" THEN headerErr("failed to parse header") ELSE parsedHdr
    IN  IF Len(s) < 6 THEN headerErr("failed to read magic string")
        ELSE IF Len(s) < 7 THEN headerErr("failed to read major version")
        ELSE IF Len(s) < 8 THEN headerErr("failed to read minor version")
        ELSE IF s[7] \notin {1, 2} THEN headerErr("unsupported version")
        ELSE IF Len(s) < start THEN headerErr("failed to read header length")
        ELSE IF Len(s) < start + headerLen THEN headerErr("failed to read header")
        ELSE withHeader(parseHeader(SubSeq(s, start + 1, start + headerLen)))

\* a failed ReadNPZFile that returns what it has decoded so far
npzPartial(msg, file, arrays) ==
    [npz |-> <<[arrays |-> arrays]>>, err |-> msg, file |-> file]

\* return nil, fmt.Errorf(...) of ReadNPZFile, with arrays decoded so far
npzFail(msg, file, arrays) == [npz |-> <<>>, err |-> msg, file |-> file]

\* the loop of ReadNPZFile over zipReader.File
RECURSIVE readMembers(_, _, _)
readMembers(files, i, arrays) ==
    IF i > Len(files) THEN [npz |-> <<[arrays |-> arrays]>>, err |-> "", file |-> ""]
    ELSE LET f == files[i]
             name == TrimSuffix(f.name, ".npy")
             secondPass(r) ==
                 IF r.err # "" THEN npzFail("failed to read array", f.name, arrays)
                 ELSE readMembers(files, i + 1,
                                  [n \in DOMAIN arrays \cup {name} |->
                                      IF n = name THEN r.arr[1] ELSE arrays[n]])
             firstPass(pk) ==
                 IF pk.err # "" THEN npzFail(pk.err, f.name, arrays)
                 ELSE IF f.opens < 2 THEN npzFail("failed to reopen file", f.name, arrays)
                 ELSE IF pk.hdr.DType \notin DTypes
                 THEN npzFail("unsupported dtype", f.name, arrays)
                 ELSE secondPass(Read(pk.hdr.DType, f.bytes))
         IN  IF f.dir THEN readMembers(files, i + 1, arrays)
             ELSE IF f.opens < 1 THEN npzFail("failed to open file", f.name, arrays)
             ELSE firstPass(peekHeader(f.bytes))

\* the file system: the archive at DiskPath, if there is one
DiskPath == "d.npz"
NoDisk == [exists |-> FALSE, files |-> <<>>]

\* ReadNPZFile(path)
ReadNPZFile(path, fs) ==
    IF ~HasSuffix(path, ".npz") THEN npzFail("expected .npz file extension", path, EmptyMap)
    ELSE IF path # DiskPath \/ ~fs.exists
    THEN npzFail("failed to open NPZ file", path, EmptyMap)
    ELSE readMembers(fs.files, 1, EmptyMap)

(***************************************************************************)
(* The inputs of the container: names, arrays, paths and archives that     *)
(* were not written by WriteNPZFile.                                       *)
(***************************************************************************)
Names == {"a", "b", "b.npy"}
Paths == {DiskPath, "d"}

\* an element type outside the eleven: Go's int
GoInt == "int"

ArrF8 == MkArray(Float64, SampleData(Float64, 2), FALSE, <<2>>, FALSE, Float64, FALSE)
ArrI4 == MkArray(Int32, SampleData(Int32, 1), FALSE, <<>>, FALSE, Int32, TRUE)
ArrF8AsI4 == MkArray(Float64, SampleData(Float64, 1), FALSE, <<1>>, FALSE, Int32, FALSE)
ArrShort == MkArray(Uint8, SampleData(Uint8, 2), FALSE, <<3>>, FALSE, Uint8, FALSE)
ArrInt == MkArray(GoInt, <<<<7>>>>, FALSE, <<1>>, FALSE, Int64, FALSE)
NPZArrays == {ArrF8, ArrI4, ArrF8AsI4, ArrShort, ArrInt}

\* the element types Get is asked for: those of the arrays stored, and two
\* that none of them has
GetTypes == {Float64, Int32, Uint8, GoInt, Int64, Bool}

\* the members of the archives from elsewhere
StreamF8 == Write(ArrF8).out
StreamI4 == Write(ArrI4).out
CraftedMembers ==
    {Member("a.npy", FALSE, StreamF8, 2),
     Member("a", FALSE, StreamI4, 2),
     Member("c/", TRUE, <<>>, 2),
     Member("a.npy", FALSE, StreamF8, 0),
     Member("a.npy", FALSE, StreamF8, 1),
     Member("m.npy", FALSE, Text.thisI \o SubSeq(StreamF8, 7, Len(StreamF8)), 2),
     Member("s.npy", FALSE, SubSeq(StreamF8, 1, 3), 2),
     Member("v.npy", FALSE, SubSeq(StreamF8, 1, 6) \o <<3>> \o SubSeq(StreamF8, 8, Len(StreamF8)), 2),
     Member("h.npy", FALSE, Envelope(Magic, 1, Text.shape1, <<>>), 2),
     Member("o.npy", FALSE, Envelope(Magic, 1, HeaderText(Text.object, Lit.false, Text.shape1), <<>>), 2),
     Member("t.npy", FALSE, SubSeq(StreamF8, 1, Len(StreamF8) - 1), 2),
     Member("x.npy", FALSE, Envelope(Text.thisI, 1, Text.shape1, <<>>), 2)}

\* the archives of at most MaxMembers of them, and no archive at all
CraftedDisks ==
    {NoDisk} \cup
    {[exists |-> TRUE, files |-> fl] :
        fl \in UNION {[1..n -> CraftedMembers] : n \in 0..MaxMembers}}

(***************************************************************************)
(* The codec as a state machine: a caller builds an array and writes it to *)
(* a buffer, or is handed a stream, and reads the stream back at some      *)
(* element type.                                                           *)
(***************************************************************************)
VARIABLES
    pc,      \* "idle", "written", "crafted", "read"
    arr,     \* the array given to Write: <<>> or <<a>>
    werr,    \* the error Write returned
    stream,  \* the bytes of the buffer
    rd,      \* the result of Read, with the element type asked for
    phase,   \* "none", "build", "written", "crafted", "loaded"
    npz,     \* the container being built: <<>> or <<npz>>
    disk,    \* the archive at DiskPath
    ret,     \* the last call on the container and what it returned
    loaded,  \* the result of ReadNPZFile, with the path asked for
    csv      \* the last ToCsv or NPZToCsvDir: what it returned and the files it left

cvars == <<pc, arr, werr, stream, rd>>
nvars == <<phase, npz, disk, ret, loaded, csv>>
vars == <<cvars, nvars>>

NoRet == [op |-> "none"]
NoLoad == [path |-> "", npz |-> <<>>, err |-> "", file |-> ""]

NoCsv == [op |-> "none"]

NoRead == [T |-> "", err |-> "", cause |-> "", arr |-> <<>>, pos |-> 0, parsed |-> FALSE]

Init ==
    /\ pc = "idle"
    /\ arr = <<>>
    /\ werr = ""
    /\ stream = <<>>
    /\ rd = NoRead
    /\ phase = "none"
    /\ npz = <<>>
    /\ disk = NoDisk
    /\ ret = NoRet
    /\ loaded = NoLoad
    /\ csv = NoCsv

\* Write(&buf, a) for an array a of the set S
WriteOver(S) ==
    /\ pc = "idle"
    /\ \E a \in S :
        LET result(w) ==
                /\ pc' = "written"
                /\ arr' = <<a>>
                /\ werr' = w.err
                /\ stream' = w.out
        IN  result(Write(a))
    /\ UNCHANGED <<rd, nvars>>

WriteCall == WriteOver(Arrays)

\* the caller is handed a stream from elsewhere
CraftCall ==
    /\ pc = "idle"
    /\ \E s \in CraftedStreams :
        /\ pc' = "crafted"
        /\ stream' = s
    /\ UNCHANGED <<arr, werr, rd, nvars>>

\* Read[T](bytes.NewReader(buf.Bytes())), after a Write that succeeded or on
\* a stream from elsewhere
ReadCall ==
    /\ \/ pc = "written" /\ werr = ""
       \/ pc = "crafted"
    /\ \E T \in ElemTypes :
        /\ pc' = "read"
        /\ rd' = [T |-> T] @@ Read(T, stream)
    /\ UNCHANGED <<arr, werr, stream, nvars>>

\* the caller drops the buffer and the results
Discard ==
    /\ pc # "idle"
    /\ pc' = "idle"
    /\ arr' = <<>>
    /\ werr' = ""
    /\ stream' = <<>>
    /\ rd' = NoRead
    /\ UNCHANGED nvars

Next ==
    \/ WriteCall
    \/ CraftCall
    \/ ReadCall
    \/ Discard

Spec == Init /\ [][Next]_vars

\* the same caller, writing arrays that include the very long shape
WriteLong == WriteOver(LongArrays)

NextLong ==
    \/ WriteLong
    \/ ReadCall
    \/ Discard

SpecLong == Init /\ [][NextLong]_vars

(***************************************************************************)
(* The container as a state machine: a caller builds a container with Add, *)
(* queries it with Get and Keys, writes it to the archive and reads the    *)
(* archive back; or reads an archive that came from elsewhere.             *)
(***************************************************************************)
\* the map of the container being built
arrays == npz[1].arrays

NewNPZFileCall ==
    /\ phase = "none"
    /\ phase' = "build"
    /\ npz' = <<NewNPZFile>>
    /\ ret' = [op |-> "NewNPZFile"]
    /\ UNCHANGED <<disk, loaded, csv, cvars>>

\* Add(npz, name, a), while the container has room under MaxEntries
AddCall ==
    /\ phase = "build"
    /\ \E name \in Names :
        /\ Cardinality(DOMAIN arrays \cup {name}) <= MaxEntries
        /\ \E a \in NPZArrays :
            /\ npz' = <<Add(npz[1], name, a)>>
            /\ ret' = [op |-> "Add", before |-> npz[1], name |-> name, arr |-> a]
    /\ UNCHANGED <<phase, disk, loaded, csv, cvars>>

\* Get[T](npz, name)
GetCall ==
    /\ phase = "build"
    /\ \E name \in Names, T \in GetTypes :
        ret' = [op |-> "Get", name |-> name, T |-> T] @@ Get(T, npz[1], name)
    /\ UNCHANGED <<phase, npz, disk, loaded, csv, cvars>>

\* Keys(npz)
KeysCall ==
    /\ phase = "build"
    /\ \E keys \in Keys(npz[1]) : ret' = [op |-> "Keys", keys |-> keys]
    /\ UNCHANGED <<phase, npz, disk, loaded, csv, cvars>>

\* WriteNPZFile(path, npz); the map iteration takes one of its orders
WriteNPZFileCall ==
    /\ phase = "build"
    /\ \E path \in Paths, order \in Orders(DOMAIN arrays) :
        LET result(w) ==
                /\ phase' = "written"
                /\ disk' = [exists |-> TRUE, files |-> w.files]
                /\ ret' = [op |-> "WriteNPZFile", path |-> path, err |-> w.err,
                           cause |-> w.cause]
        IN  /\ npzPath(path) = DiskPath
            /\ result(WriteNPZFile(path, npz[1], order))
    /\ UNCHANGED <<npz, loaded, csv, cvars>>

\* an archive from elsewhere is put at DiskPath, or none is
CraftDisk ==
    /\ phase = "none"
    /\ \E d \in CraftedDisks :
        /\ phase' = "crafted"
        /\ disk' = d
    /\ UNCHANGED <<npz, ret, loaded, csv, cvars>>

\* ReadNPZFile(path)
ReadNPZFileCall ==
    /\ phase \in {"written", "crafted"}
    /\ \E path \in Paths :
        /\ phase' = "loaded"
        /\ loaded' = [path |-> path] @@ ReadNPZFile(path, disk)
    /\ UNCHANGED <<npz, disk, ret, csv, cvars>>

\* the caller drops the container and removes the archive
Forget ==
    /\ phase # "none"
    /\ phase' = "none"
    /\ npz' = <<>>
    /\ disk' = NoDisk
    /\ ret' = NoRet
    /\ loaded' = NoLoad
    /\ csv' = NoCsv
    /\ UNCHANGED cvars

NextNPZ ==
    \/ NewNPZFileCall
    \/ AddCall
    \/ GetCall
    \/ KeysCall
    \/ WriteNPZFileCall
    \/ CraftDisk
    \/ ReadNPZFileCall
    \/ Forget

SpecNPZ == Init /\ [][NextNPZ]_vars

(***************************************************************************)
(* The tabular projection: ToCsv and NPZToCsvDir.  The CSV writer is the   *)
(* sequence of records given to writer.Write, each a sequence of field     *)
(* texts; the file system accepts every file.                              *)
(***************************************************************************)
MaxRows == 2
MaxCols == 3

\* the texts of fmt.Sprintf("%v", val) that are not digits
Fmt == [true |-> Bytes("true"), false |-> Bytes("false"), half |-> Bytes(".5")]

SignedTypes == {"int8", "int16", "int32", "int64"}
UnsignedTypes == {"uint8", "uint16", "uint32", "uint64"}

\* the float types: the bits of the biased exponent below the sign within the
\* two high bytes, and the bias
floatFormat(T) ==
    IF T = "float64" THEN [shift |-> 16, bias |-> 1023] ELSE [shift |-> 128, bias |-> 127]

\* 2^n
RECURSIVE Pow2(_)
Pow2(n) == IF n = 0 THEN 1 ELSE 2 * Pow2(n - 1)

\* fmt.Sprintf("%v", val) for a float whose value is a multiple of 0.5 below
\* 16 in magnitude (every mantissa bit under the top four is zero): the sign,
\* the integer part and ".5" for an odd number of halves
SprintFloat(T, v) ==
    LET w == Len(v)
        hi == v[w] * 256 + v[w - 1]
        f == floatFormat(T)
        E == (hi % 32768) \div f.shift
        m4 == ((hi % f.shift) * 16) \div f.shift
        halves == IF E = 0 THEN 0 ELSE ((16 + m4) * Pow2(E - f.bias + 1)) \div 16
    IN  (IF hi >= 32768 THEN <<45>> ELSE <<>>)
        \o Digits(halves \div 2)
        \o (IF halves % 2 = 1 THEN Fmt.half ELSE <<>>)

\* fmt.Sprintf("%v", val) for an element of type T
Sprint(T, v) ==
    IF T = "bool" THEN (IF v[1] # 0 THEN Fmt.true ELSE Fmt.false)
    ELSE IF T \in UnsignedTypes THEN Digits(LEValue(v))
    ELSE IF T \in SignedTypes
    THEN IF v[Len(v)] >= 128
         THEN <<45>> \o Digits(LEValue([i \in 1..Len(v) |-> 255 - v[i]]) + 1)
         ELSE Digits(LEValue(v))
    ELSE SprintFloat(T, v)

\* what ToCsv returns and leaves in the file: the error, the records written,
\* and whether it panicked on an index out of range
csvResult(err, rows, panic) == [err |-> err, rows |-> rows, panic |-> panic]

\* an empty-array test that knows the shape of no dimensions only
emptyShapeScalarOnly(a) == Len(a.Shape) = 0

\* dimensions == 0 || (dimensions == 1 && arr.Shape[0] == 0)
emptyShape(a) == Len(a.Shape) = 0 \/ (Len(a.Shape) = 1 /\ a.Shape[1] = 0)

\* a 1-D branch that writes every element as a record of its own
vectorAsColumn(a) == [i \in 1..Len(a.Data) |-> <<Sprint(a.T, a.Data[i])>>]

\* the 1-D branch: one record holding the text of every element of Data
vectorRows(a) == <<[i \in 1..Len(a.Data) |-> Sprint(a.T, a.Data[i])]>>

\* a 2-D branch that reads data[r*cols + c] whatever the layout flag
matrixRowMajorOnly(a) ==
    LET rows == a.Shape[1]
        cols == a.Shape[2]
        idx(r, c) == r * cols + c
        record(r) == [c \in 1..cols |-> Sprint(a.T, a.Data[idx(r - 1, c - 1) + 1])]
        bad == {r \in 1..rows : \E c \in 1..cols : idx(r - 1, c - 1) >= Len(a.Data)}
    IN  IF bad = {} THEN csvResult("", [r \in 1..rows |-> record(r)], FALSE)
        ELSE csvResult("", [r \in 1..(Min(bad) - 1) |-> record(r)], TRUE)

\* the 2-D branch: record r holds the texts of data[idx] for c = 0..cols-1;
\* a row in which some idx is not an index of Data panics, the records of
\* the rows before it written
matrixRows(a) ==
    LET rows == a.Shape[1]
        cols == a.Shape[2]
        idx(r, c) == IF a.Fortran THEN c * rows + r ELSE r * cols + c
        record(r) == [c \in 1..cols |-> Sprint(a.T, a.Data[idx(r - 1, c - 1) + 1])]
        bad == {r \in 1..rows : \E c \in 1..cols : idx(r - 1, c - 1) >= Len(a.Data)}
    IN  IF bad = {} THEN csvResult("", [r \in 1..rows |-> record(r)], FALSE)
        ELSE csvResult("", [r \in 1..(Min(bad) - 1) |-> record(r)], TRUE)

\* a ToCsv that projects an array of more dimensions by its first two
ToCsvLeadingDims(a) ==
    IF emptyShape(a) THEN csvResult("", <<>>, FALSE)
    ELSE IF Len(a.Shape) = 1 THEN csvResult("", vectorRows(a), FALSE)
    ELSE matrixRows(a)

\* ToCsv(arr, csvPath) on a path os.Create accepts
ToCsv(a) ==
    IF emptyShape(a) THEN csvResult("", <<>>, FALSE)
    ELSE IF Len(a.Shape) = 1 THEN csvResult("", vectorRows(a), FALSE)
    ELSE IF Len(a.Shape) = 2 THEN matrixRows(a)
    ELSE csvResult("arrays with more than 2 dimensions are not supported for Csv export",
                   <<>>, FALSE)

\* a chain of probes that has none for float32
ProbeOrderNoFloat32 == <<"bool", "int8", "int16", "int32", "int64",
                         "uint8", "uint16", "uint32", "uint64", "float64">>

\* the order of the Get probes of NPZToCsvDir
ProbeOrder == <<"bool", "int8", "int16", "int32", "int64",
                "uint8", "uint16", "uint32", "uint64", "float32", "float64">>

\* the files of the output directory after os.Create and the writes of one
\* ToCsv: an existing file of that name is truncated
withFile(files, name, rows) ==
    [n \in DOMAIN files \cup {name} |-> IF n = name THEN rows ELSE files[n]]

\* what NPZToCsvDir returns and leaves in the output directory; key is the
\* key it failed at, cause the wrapped error
dirResult(err, key, cause, files, panic) ==
    [err |-> err, key |-> key, cause |-> cause, files |-> files, panic |-> panic]

\* the loop of NPZToCsvDir over Keys(npz), in the order Keys returned them:
\* the first probe that finds the key exports it to the file key+".csv" of
\* the output directory and the later ones are skipped
RECURSIVE exportKeys(_, _, _, _)
exportKeys(container, order, i, files) ==
    IF i > Len(order) THEN dirResult("", "", "", files, FALSE)
    ELSE LET key == order[i]
             outPath == key \o ".csv"
             hits == {j \in 1..Len(ProbeOrder) : Get(ProbeOrder[j], container, key).ok}
             exported(r) ==
                 IF r.panic
                 THEN dirResult("", key, "", withFile(files, outPath, r.rows), TRUE)
                 ELSE IF r.err # ""
                 THEN dirResult("failed to export", key, r.err,
                                withFile(files, outPath, r.rows), FALSE)
                 ELSE exportKeys(container, order, i + 1, withFile(files, outPath, r.rows))
         IN  IF hits = {} THEN dirResult("unsupported data type", key, "", files, FALSE)
             ELSE exported(ToCsv(Get(ProbeOrder[Min(hits)], container, key).arr[1]))

\* NPZToCsvDir(npzPath, outputDir) into an empty directory that os.MkdirAll
\* accepts, for the container read and one order of its Keys
NPZToCsvDir(read, order) ==
    IF read.err # "" THEN dirResult("failed to read NPZ file", "", read.err, EmptyMap, FALSE)
    ELSE exportKeys(read.npz[1], order, 1, EmptyMap)

(***************************************************************************)
(* The inputs of the projection.                                           *)
(***************************************************************************)
\* the k-th sample element of type T, k >= 1: true and false in turn, k for an
\* unsigned type, k and -k in turn for a signed type, k/2 and -k/2 in turn for
\* a float type
CsvElem(T, k) ==
    LET w == sizeof(T)
        f == floatFormat(T)
        p == CHOOSE q \in 0..4 : Pow2(q) <= k /\ k < Pow2(q + 1)
        hi == (IF k % 2 = 0 THEN 32768 ELSE 0)
              + (f.bias + p - 1) * f.shift
              + (((k - Pow2(p)) * 16) \div Pow2(p)) * (f.shift \div 16)
    IN  IF T = "bool" THEN <<k % 2>>
        ELSE IF T \in UnsignedTypes THEN LittleEndian(w, k)
        ELSE IF T \in SignedTypes
        THEN IF k % 2 = 0 THEN [i \in 1..w |-> IF i = 1 THEN 256 - k ELSE 255]
             ELSE LittleEndian(w, k)
        ELSE [i \in 1..w |-> IF i = w THEN hi \div 256
                             ELSE IF i = w - 1 THEN hi % 256 ELSE 0]

\* the logical R x C matrix of type T whose element (r, c) is sample number
\* (r-1)*C + c
Matrix(T, R, C) ==
    [T |-> T, R |-> R, C |-> C,
     at |-> [r \in 1..R, c \in 1..C |-> CsvElem(T, (r - 1) * C + c)]]

Matrices == {Matrix(T, R, C) : T \in ElemTypes, R \in 0..MaxRows, C \in 0..MaxCols}

\* the array that stores M in column-major order with Fortran = true, or in
\* row-major order with Fortran = false
Stored(M, fortran) ==
    MkArray(M.T,
            [k \in 1..(M.R * M.C) |->
                IF fortran THEN M.at[((k - 1) % M.R) + 1, ((k - 1) \div M.R) + 1]
                ELSE M.at[((k - 1) \div M.C) + 1, ((k - 1) % M.C) + 1]],
            FALSE, <<M.R, M.C>>, FALSE, M.T, fortran)

\* an array of shape sh holding the first n samples of type T
Shaped(T, sh, shapeNil, n, dataNil, fortran) ==
    MkArray(T, [i \in 1..n |-> CsvElem(T, i)], dataNil, sh, shapeNil, T, fortran)

\* the arrays given to ToCsv: the matrices in both layouts; arrays of one
\* dimension, of none, of a 2 x 2 shape whose Data may be short, and of three
\* and four dimensions, holding up to MaxCols + 1 elements; arrays with a nil
\* Shape or nil Data
CsvArrays ==
    {Stored(M, f) : M \in Matrices, f \in BOOLEAN}
    \cup {Shaped(T, sh, FALSE, n, FALSE, f) :
            T \in ElemTypes,
            sh \in {<<n>> : n \in 0..MaxCols}
                   \cup {<<>>, <<2, 2>>, <<1, 1, 1>>, <<2, 1, 2>>, <<0, 2, 2>>, <<1, 1, 1, 1>>},
            n \in 0..(MaxCols + 1), f \in BOOLEAN}
    \cup {Shaped(T, <<>>, TRUE, n, n = 0, FALSE) : T \in ElemTypes, n \in 0..1}
    \cup {Shaped(T, <<2>>, FALSE, 0, TRUE, FALSE) : T \in ElemTypes}

\* the members of the archives NPZToCsvDir is given: a matrix in each layout,
\* a vector, a scalar, an array of three dimensions, and a member that is no
\* array
CsvMembers ==
    {Member("m.npy", FALSE, Write(Stored(Matrix("int32", 2, 3), FALSE)).out, 2),
     Member("f.npy", FALSE, Write(Stored(Matrix("float32", 2, 3), TRUE)).out, 2),
     Member("v.npy", FALSE, Write(Shaped("float64", <<3>>, FALSE, 3, FALSE, FALSE)).out, 2),
     Member("s.npy", FALSE, Write(Shaped("bool", <<>>, FALSE, 1, FALSE, FALSE)).out, 2),
     Member("t.npy", FALSE, Write(Shaped("uint8", <<2, 1, 2>>, FALSE, 4, FALSE, FALSE)).out, 2),
     Member("x.npy", FALSE, Text.thisI, 2)}

CsvDisks ==
    {[exists |-> TRUE, files |-> fl] :
        fl \in UNION {[1..n -> CsvMembers] : n \in 0..MaxMembers}}

(***************************************************************************)
(* The projection as a state machine: a caller exports an array it built,  *)
(* or exports an archive.                                                  *)
(***************************************************************************)
\* ToCsv(a, csvPath)
ToCsvCall ==
    /\ phase = "none"
    /\ \E a \in CsvArrays :
        csv' = [op |-> "ToCsv", arr |-> a] @@ ToCsv(a)
    /\ phase' = "exported"
    /\ UNCHANGED <<npz, disk, ret, loaded, cvars>>

\* an archive is put at DiskPath
CraftCsvDisk ==
    /\ phase = "none"
    /\ \E d \in CsvDisks :
        /\ phase' = "crafted"
        /\ disk' = d
    /\ UNCHANGED <<npz, ret, loaded, csv, cvars>>

\* NPZToCsvDir(path, outputDir); Keys returns the keys in one of its orders
NPZToCsvDirCall ==
    /\ phase = "crafted"
    /\ \E path \in Paths :
        LET result(read) ==
                \E order \in (IF read.err # "" THEN {<<>>} ELSE Keys(read.npz[1])) :
                    csv' = [op |-> "NPZToCsvDir", path |-> path, read |-> read,
                            order |-> order]
                           @@ NPZToCsvDir(read, order)
        IN  result(ReadNPZFile(path, disk))
    /\ phase' = "exported"
    /\ UNCHANGED <<npz, disk, ret, loaded, cvars>>

NextCsv ==
    \/ ToCsvCall
    \/ CraftCsvDisk
    \/ NPZToCsvDirCall
    \/ Forget

SpecCsv == Init /\ [][NextCsv]_vars

(***************************************************************************)
(* The claims about Write and Read.                                        *)
(***************************************************************************)
\* the array given to the last Write
written == arr[1]

\* the header block of the stream of a successful Write: what lies between
\* the 10-byte preamble and the element data
headerBlock == SubSeq(stream, 11, Len(stream) - Len(written.Data) * sizeof(written.T))

\* C1: Single-array round trip.  For an array of a supported element type
\* whose DType is the tag of that type and whose Data has product(Shape)
\* elements, Read at the same type of what Write wrote returns no error and
\* an array with the same Data, Shape, DType and Fortran.
C1_RoundTrip ==
    (pc = "read" /\ arr # <<>> /\ validate(written) = "" /\ written.DType = written.T
        /\ rd.T = written.T)
    => (rd.err = "" /\ rd.arr = <<written>>)

\* C2 (as stated): Write returns an error if and only if len(Data) differs
\* from product(Shape).
C2_ErrorIffLengthMismatch ==
    pc = "written"
    => ((werr # "") <=> (Len(written.Data) # totalElements(written.Shape)))

\* C2 (amended): Write returns an error if and only if Data is nil, Shape is
\* nil, DType is empty or len(Data) differs from product(Shape); a failed Write
\* has written nothing.
C2_ErrorIffInvalid ==
    pc = "written"
    => /\ (werr # "") <=> \/ written.DataNil
                          \/ written.ShapeNil
                          \/ written.DType = ""
                          \/ Len(written.Data) # totalElements(written.Shape)
       /\ werr # "" => stream = <<>>

\* C2 witness: Write refused an array whose length matches its shape
C2_Witness ==
    /\ pc = "written"
    /\ werr = "array dtype is empty"
    /\ Len(written.Data) = totalElements(written.Shape)
    /\ Len(written.Data) = 2

\* C3: Read never returns an array whose DType does not correspond to the
\* element type asked for: a stream of another dtype is a decode error.
C3_MismatchIsError ==
    (pc = "read" /\ rd.err = "") => rd.arr[1].DType = rd.T

\* the descr token of the header block of a stream with a 2- or 4-byte
\* length field, <<>> when the header has none
descrOfStream(s) ==
    LET start == 8 + lenFieldSize(s[7])
    IN  descrMatch(dictStrOf(SubSeq(s, start + 1, Len(s))))

\* the kind-and-width parts of the eleven vocabulary tokens
Kinds == {typeChars[t] : t \in DTypes}

\* a descr token is recognised when what follows its first byte is one of Kinds
Recognised(tok) == Len(tok) >= 2 /\ SubSeq(tok, 2, Len(tok)) \in Kinds

\* C4: An unrecognised element type is a hard failure on both paths: Write
\* of an array whose DType is non-empty and not one of the eleven tags returns
\* an error, and Read of a header whose descr is not a recognised token
\* returns an error.
C4_UnknownTypeIsError ==
    /\ (pc = "written" /\ written.DType # "" /\ written.DType \notin DTypes) => werr # ""
    /\ (pc = "read" /\ rd.parsed /\ descrOfStream(stream) # <<>>
          /\ ~Recognised(descrOfStream(stream)[1]))
       => (rd.err # "" /\ rd.arr = <<>>)

\* C5: Header padding invariant.  The header block of every successful Write
\* has a length L with (10 + L) mod 16 = 0, is the dictionary text, then
\* spaces, then one newline as its last byte, and holds at least one byte of
\* padding; the dictionary text holds no newline.
C5_HeaderPadding ==
    (pc = "written" /\ werr = "")
    => LET dict == generateHeader(written)
           L == Len(headerBlock)
       IN  /\ (10 + L) % 16 = 0
           /\ L - Len(dict) >= 1
           /\ SubSeq(headerBlock, 1, Len(dict)) = dict
           /\ headerBlock[L] = NL
           /\ \A i \in (Len(dict) + 1)..(L - 1) : headerBlock[i] = SP
           /\ \A i \in 1..Len(dict) : dict[i] # NL

\* C5 witness: a Write whose dictionary text already brings the preamble to a
\* multiple of 16, padded by a full 16 bytes
C5_Witness ==
    /\ pc = "written"
    /\ werr = ""
    /\ (10 + Len(generateHeader(written))) % 16 = 0
    /\ Len(headerBlock) = Len(generateHeader(written)) + 16

\* C10: Corrupt input rejection.  Read of a stream whose first 6 bytes are not
\* the magic constant returns "invalid magic string" and no array, having
\* consumed those 6 bytes only and without parsing a header.
C10_BadMagicRejected ==
    (pc = "read" /\ Len(stream) >= 6 /\ SubSeq(stream, 1, 6) # Magic)
    => /\ rd.err = "invalid magic string"
       /\ rd.arr = <<>>
       /\ rd.pos = 6
       /\ ~rd.parsed

\* C10 witness: a Read of a stream that is well-formed but for its magic
C10_Witness ==
    /\ pc = "read"
    /\ Len(stream) >= 10
    /\ SubSeq(stream, 1, 6) = Text.thisI
    /\ Read(rd.T, Magic \o SubSeq(stream, 7, Len(stream))).err = ""
    /\ rd.err = "invalid magic string"

(***************************************************************************)
(* The claims about the container.                                         *)
(***************************************************************************)
\* the container ReadNPZFile returned
loadedNPZ == loaded.npz[1]

\* the array a member decodes to: the first pass finds its dtype, the second
\* reads it at that type
decode(f) == Read(peekHeader(f.bytes).hdr.DType, f.bytes)

\* a member fails at some stage of ReadNPZFile
memberFails(f) ==
    \/ f.opens < 2
    \/ peekHeader(f.bytes).err # ""
    \/ decode(f).err # ""

\* the non-directory members of the archive, by position
fileMembers == {i \in 1..Len(disk.files) : ~disk.files[i].dir}

\* the key of the member at position i, and the last member with that key
keyOf(i) == TrimSuffix(disk.files[i].name, ".npy")
lastOf(i) == CHOOSE j \in fileMembers :
                /\ keyOf(j) = keyOf(i)
                /\ \A k \in fileMembers : keyOf(k) = keyOf(i) => k <= j

\* every entry of the container being built is a valid array of a supported
\* element type whose DType is the tag of that type
AllSupported ==
    \A n \in DOMAIN arrays :
        /\ arrays[n].T \in ElemTypes
        /\ arrays[n].DType = arrays[n].T
        /\ validate(arrays[n]) = ""

\* C6: Container round trip.  For a container of valid arrays of supported
\* types under any distinct names, WriteNPZFile then ReadNPZFile return no
\* error, the members of the archive are the names with ".npy" appended, the
\* Keys of the container read are exactly the original names, Get at the
\* original element type returns for each name an array with the original
\* Data, Shape and DType, and no other order of the iteration in WriteNPZFile
\* would have given another container.
C6_ContainerRoundTrip ==
    (phase = "loaded" /\ npz # <<>> /\ loaded.path = DiskPath /\ AllSupported)
    => /\ ret.err = ""
       /\ loaded.err = ""
       /\ loaded.npz # <<>>
       /\ Len(disk.files) = Cardinality(DOMAIN arrays)
       /\ {disk.files[i].name : i \in 1..Len(disk.files)} = {n \o ".npy" : n \in DOMAIN arrays}
       /\ DOMAIN loadedNPZ.arrays = DOMAIN arrays
       /\ \A n \in DOMAIN arrays :
            LET g == Get(arrays[n].T, loadedNPZ, n)
            IN  /\ g.ok
                /\ g.arr # <<>>
                /\ g.arr[1].Data = arrays[n].Data
                /\ g.arr[1].Shape = arrays[n].Shape
                /\ g.arr[1].DType = arrays[n].DType
       /\ \A order \in Orders(DOMAIN arrays) :
            ReadNPZFile(DiskPath, [exists |-> TRUE,
                                   files |-> WriteNPZFile(ret.path, npz[1], order).files]).npz
            = loaded.npz

\* C7: Type-keyed retrieval.  Get[T](name) returns ok exactly when name is
\* present and the array stored under it has element type T, and then returns
\* that array; otherwise it returns ok = false and nil.
C7_TypeKeyedGet ==
    (phase = "build" /\ ret.op = "Get")
    => /\ ret.ok <=> (ret.name \in DOMAIN arrays /\ arrays[ret.name].T = ret.T)
       /\ ret.ok => ret.arr = <<arrays[ret.name]>>
       /\ ~ret.ok => ret.arr = <<>>

\* C7 witness: a Get at the type a stored array names in its DType field, which
\* is not its element type, finds nothing
C7_Witness ==
    /\ phase = "build"
    /\ ret.op = "Get"
    /\ ret.name \in DOMAIN arrays
    /\ arrays[ret.name].T # ret.T
    /\ arrays[ret.name].DType = ret.T
    /\ ~ret.ok

\* C8: Container map semantics.  NewNPZFile yields a container with no keys;
\* Keys returns each key of the map exactly once and nothing else; Add under a
\* name sets the entry of that name, replacing the one it had, and leaves
\* every other entry as it was.
C8_MapSemantics ==
    /\ (phase = "build" /\ ret.op = "NewNPZFile") => DOMAIN arrays = {}
    /\ (phase = "build" /\ ret.op = "Keys")
       => /\ Len(ret.keys) = Cardinality(DOMAIN arrays)
          /\ {ret.keys[i] : i \in 1..Len(ret.keys)} = DOMAIN arrays
    /\ (phase = "build" /\ ret.op = "Add")
       => /\ DOMAIN arrays = DOMAIN ret.before.arrays \cup {ret.name}
          /\ arrays[ret.name] = ret.arr
          /\ \A n \in DOMAIN ret.before.arrays \ {ret.name} :
                arrays[n] = ret.before.arrays[n]

\* C8 witness: an Add under a name that held an array of another element
\* type, in a container with a second entry
C8_Witness ==
    /\ phase = "build"
    /\ ret.op = "Add"
    /\ ret.name \in DOMAIN ret.before.arrays
    /\ ret.before.arrays[ret.name].T # ret.arr.T
    /\ Cardinality(DOMAIN arrays) = 2

\* ReadNPZFile returned no container and an error
NothingLoaded == loaded.err # "" /\ loaded.npz = <<>>

\* C9 (as stated): ReadNPZFile returns either no error and a container that
\* holds every non-directory member of the archive, or an error and no
\* container; it returns the latter when a member fails at any stage.
C9_AllOrNothing ==
    phase = "loaded"
    => /\ \/ /\ loaded.err = ""
             /\ loaded.npz # <<>>
             /\ \A i \in fileMembers :
                    /\ keyOf(i) \in DOMAIN loadedNPZ.arrays
                    /\ loadedNPZ.arrays[keyOf(i)] = decode(disk.files[i]).arr[1]
          \/ NothingLoaded
       /\ (\E i \in fileMembers : memberFails(disk.files[i])) => NothingLoaded

\* C9 (amended): ReadNPZFile returns either no error and a container whose
\* keys are the names of the non-directory members with a trailing ".npy"
\* removed, each holding the array of the last member of that key, or an error
\* and no container; it returns the latter when a member fails at any stage.
C9_AllOrNothingLastWins ==
    phase = "loaded"
    => /\ \/ /\ loaded.err = ""
             /\ loaded.npz # <<>>
             /\ DOMAIN loadedNPZ.arrays = {keyOf(i) : i \in fileMembers}
             /\ \A i \in fileMembers :
                    loadedNPZ.arrays[keyOf(i)] = decode(disk.files[lastOf(i)]).arr[1]
          \/ NothingLoaded
       /\ (\E i \in fileMembers : memberFails(disk.files[i])) => NothingLoaded

\* C9 witness: the second member of an archive fails after the first was
\* decoded, and nothing is returned
C9_Witness ==
    /\ phase = "loaded"
    /\ loaded.path = DiskPath
    /\ Len(disk.files) = 2
    /\ fileMembers = {1, 2}
    /\ ~memberFails(disk.files[1])
    /\ memberFails(disk.files[2])
    /\ loaded.file = disk.files[2].name
    /\ NothingLoaded

(***************************************************************************)
(* The claims about the header and the envelope on decode.                 *)
(***************************************************************************)
\* the stream has the magic constant, a major version of 1 or 2 and a length
\* field, and holds the header block the length field declares to Read
Enveloped(s) ==
    /\ Len(s) >= 8
    /\ SubSeq(s, 1, 6) = Magic
    /\ s[7] \in {1, 2}
    /\ Len(s) >= 8 + lenFieldSize(s[7])
    /\ Len(s) >= 8 + lenFieldSize(s[7])
                 + uint16(LEValue(SubSeq(s, 9, 8 + lenFieldSize(s[7]))))

\* the dictionary of the header block Read takes from an Enveloped stream
dictOfStream(s) ==
    LET start == 8 + lenFieldSize(s[7])
    IN  dictStrOf(SubSeq(s, start + 1,
                         start + uint16(LEValue(SubSeq(s, 9, start)))))

\* the shape tuple of a dictionary is present and all its parts are numbers
ShapeWellFormed(dict) ==
    /\ shapeMatch(dict) # <<>>
    /\ parseShapeParts(Split(shapeMatch(dict)[1]), <<>>).ok

\* the stream of the state is Enveloped, its header has a well-formed shape
\* and fortran_order, and a descr token that resolves to none of the 11 types
UnresolvedDescr ==
    /\ Enveloped(stream)
    /\ ShapeWellFormed(dictOfStream(stream))
    /\ fortranMatch(dictOfStream(stream)) # <<>>
    /\ descrMatch(dictOfStream(stream)) # <<>>
    /\ ~Recognised(descrMatch(dictOfStream(stream))[1])

\* C11 (as stated): Read of a stream with valid magic, version and header
\* length whose header has a well-formed shape and fortran_order and a descr
\* token, of any length, that resolves to none of the 11 types fails with
\* "unsupported dtype" and returns no array, whatever the element type asked
\* for and the data bytes.
C11_UnsupportedDType ==
    (pc = "read" /\ UnresolvedDescr)
    => /\ rd.err = "failed to parse header"
       /\ rd.cause = "unsupported dtype"
       /\ rd.arr = <<>>

\* C11 (amended): Read of such a stream fails in parseHeader and returns no
\* array, whatever the element type asked for and the data bytes; the error
\* is "unsupported dtype" when the token has at least 2 bytes and "invalid
\* dtype format" when it has fewer.
C11_UnresolvedTokenFails ==
    (pc = "read" /\ UnresolvedDescr)
    => /\ rd.err = "failed to parse header"
       /\ rd.arr = <<>>
       /\ rd.cause = (IF Len(descrMatch(dictOfStream(stream))[1]) >= 2
                      THEN "unsupported dtype" ELSE "invalid dtype format")

\* C11 witness: a Read at float64 of a version-2 stream whose descr is '|O',
\* with 8 bytes of data after the header, fails with "unsupported dtype"
C11_Witness ==
    /\ pc = "read"
    /\ UnresolvedDescr
    /\ stream[7] = 2
    /\ descrMatch(dictOfStream(stream))[1] = Text.object
    /\ rd.T = Float64
    /\ Len(stream) > 12 + LEValue(SubSeq(stream, 9, 12))
    /\ rd.cause = "unsupported dtype"

(***************************************************************************)
(* The claims about the tabular projection.                                *)
(***************************************************************************)
\* the state after a ToCsv
Projected == phase = "exported" /\ csv.op = "ToCsv"

\* C12: Layout-independence of projection.  For every logical R x C matrix M,
\* ToCsv of the array that stores M in row-major order with Fortran = false
\* and ToCsv of the array that stores M in column-major order with Fortran =
\* true return no error and emit the same table: R rows of C fields, field c
\* of row r being the text of M[r][c].
C12_LayoutIndependent ==
    Projected
    => \A M \in Matrices, f \in BOOLEAN :
         csv.arr = Stored(M, f)
         => /\ csv.err = ""
            /\ ~csv.panic
            /\ Len(csv.rows) = M.R
            /\ \A r \in 1..M.R :
                 /\ Len(csv.rows[r]) = M.C
                 /\ \A c \in 1..M.C : csv.rows[r][c] = Sprint(M.T, M.at[r, c])
            /\ ToCsv(Stored(M, ~f)).rows = csv.rows

\* C12 witness: the projection of a 2 x 3 matrix stored in column-major
\* order, whose Data is not in the order of the rows emitted
C12_Witness ==
    /\ Projected
    /\ csv.arr = Stored(Matrix("int32", 2, 3), TRUE)
    /\ csv.arr.Data # Stored(Matrix("int32", 2, 3), FALSE).Data
    /\ csv.rows = <<<<Bytes("1"), Bytes("-2"), Bytes("3")>>,
                    <<Bytes("-4"), Bytes("5"), Bytes("-6")>>>>

\* C13: 1-D projection.  ToCsv of an array whose shape has exactly one
\* dimension, of size n > 0, returns no error and emits exactly one row,
\* whose fields are the texts of all the elements of Data in the order of
\* Data.
C13_VectorOneRow ==
    (Projected /\ ~csv.arr.ShapeNil /\ Len(csv.arr.Shape) = 1 /\ csv.arr.Shape[1] > 0)
    => /\ csv.err = ""
       /\ ~csv.panic
       /\ Len(csv.rows) = 1
       /\ Len(csv.rows[1]) = Len(csv.arr.Data)
       /\ \A i \in 1..Len(csv.arr.Data) :
            csv.rows[1][i] = Sprint(csv.arr.T, csv.arr.Data[i])

\* C13 witness: the projection of the float64 vector [0.5, -1, 1.5]
C13_Witness ==
    /\ Projected
    /\ csv.arr.T = "float64"
    /\ csv.arr.Shape = <<3>>
    /\ Len(csv.arr.Data) = 3
    /\ csv.rows = <<<<Bytes("0.5"), Bytes("-1"), Bytes("1.5")>>>>

\* C14: ToCsv of an array of 3 or more dimensions returns the error of the
\* unsupported dimensionality and emits no row, whatever Data and Fortran are.
C14_HigherDimsRejected ==
    (Projected /\ Len(csv.arr.Shape) >= 3)
    => /\ csv.err = "arrays with more than 2 dimensions are not supported for Csv export"
       /\ csv.rows = <<>>
       /\ ~csv.panic

\* C14 witness: the projection of an array of shape (2, 1, 2) that holds its
\* 4 elements, in Fortran order
C14_Witness ==
    /\ Projected
    /\ csv.arr.Shape = <<2, 1, 2>>
    /\ Len(csv.arr.Data) = 4
    /\ csv.arr.Fortran
    /\ csv.err # ""
    /\ csv.rows = <<>>

\* C15: ToCsv of an array of 0 dimensions, or of exactly 1 dimension of size
\* 0, emits no row and returns no error, whatever Data holds.
C15_EmptyShapeNoRows ==
    (Projected /\ (Len(csv.arr.Shape) = 0
                     \/ (Len(csv.arr.Shape) = 1 /\ csv.arr.Shape[1] = 0)))
    => /\ csv.err = ""
       /\ csv.rows = <<>>
       /\ ~csv.panic

\* C15 witness: the projection of an array of shape (0,) whose Data holds 2
\* elements
C15_Witness ==
    /\ Projected
    /\ csv.arr.Shape = <<0>>
    /\ Len(csv.arr.Data) = 2
    /\ csv.err = ""
    /\ csv.rows = <<>>

\* the state after an NPZToCsvDir whose ReadNPZFile returned a container
Exported == phase = "exported" /\ csv.op = "NPZToCsvDir" /\ csv.read.err = ""

\* the element types at which Get finds the key in the container read
probesOf(key) == {T \in ElemTypes : Get(T, csv.read.npz[1], key).ok}

\* the positions of csv.order whose array ToCsv refuses
refused == {i \in 1..Len(csv.order) : ToCsv(csv.read.npz[1].arrays[csv.order[i]]).err # ""}

\* C16 (as stated): NPZToCsvDir exports every array of a container returned
\* by ReadNPZFile exactly once: for every key exactly one of the eleven Get
\* probes succeeds, "unsupported data type" is never returned, and the output
\* directory holds exactly one file key.csv per key, with the projection of
\* the array of that key.
C16_EveryArrayExported ==
    Exported
    => /\ \A key \in DOMAIN csv.read.npz[1].arrays : Cardinality(probesOf(key)) = 1
       /\ csv.err # "unsupported data type"
       /\ DOMAIN csv.files = {key \o ".csv" : key \in DOMAIN csv.read.npz[1].arrays}
       /\ \A key \in DOMAIN csv.read.npz[1].arrays :
            csv.files[key \o ".csv"] = ToCsv(csv.read.npz[1].arrays[key]).rows

\* C16 (amended): for every key of a container returned by ReadNPZFile
\* exactly one of the eleven Get probes succeeds and "unsupported data type"
\* is never returned.  When no array has more than 2 dimensions NPZToCsvDir
\* returns no error and the output directory holds exactly one file key.csv
\* per key, with the projection of the array of that key.  Otherwise it
\* returns "failed to export" at the first key, in the order of Keys, whose
\* array has more than 2 dimensions: the directory then holds the files of
\* the keys before it and an empty file for that key, and none for the keys
\* after it.
C16_ExportedUpToRefusal ==
    Exported
    => /\ \A key \in DOMAIN csv.read.npz[1].arrays : Cardinality(probesOf(key)) = 1
       /\ csv.err # "unsupported data type"
       /\ ~csv.panic
       /\ \A i \in 1..Len(csv.order) :
            (Len(csv.read.npz[1].arrays[csv.order[i]].Shape) > 2) <=> (i \in refused)
       /\ IF refused = {}
          THEN /\ csv.err = ""
               /\ DOMAIN csv.files = {key \o ".csv" : key \in DOMAIN csv.read.npz[1].arrays}
          ELSE /\ csv.err = "failed to export"
               /\ csv.key = csv.order[Min(refused)]
               /\ DOMAIN csv.files = {csv.order[i] \o ".csv" : i \in 1..Min(refused)}
               /\ csv.files[csv.key \o ".csv"] = <<>>
       /\ \A key \in DOMAIN csv.read.npz[1].arrays :
            (key \o ".csv") \in DOMAIN csv.files
            => csv.files[key \o ".csv"] = ToCsv(csv.read.npz[1].arrays[key]).rows

\* C16 witness: the export of an archive that holds an int32 matrix and a
\* float64 vector leaves the two files m.csv and v.csv
C16_Witness ==
    /\ Exported
    /\ csv.err = ""
    /\ DOMAIN csv.files = {"m.csv", "v.csv"}
    /\ csv.read.npz[1].arrays["m"].T = "int32"
    /\ csv.files["m.csv"] = <<<<Bytes("1"), Bytes("-2"), Bytes("3")>>,
                              <<Bytes("-4"), Bytes("5"), Bytes("-6")>>>>
    /\ csv.files["v.csv"] = <<<<Bytes("0.5"), Bytes("-1"), Bytes("1.5")>>>>

(***************************************************************************)
(* The claims about the header text.                                       *)
(***************************************************************************)
\* the dictionary text the claim gives for an array: the dims joined by ", ",
\* with a trailing comma for exactly one dimension
textForm(a) ==
    Bytes("{'descr': '") \o descrTokens[a.DType]
    \o Bytes("', 'fortran_order': ") \o (IF a.Fortran THEN Bytes("True") ELSE Bytes("False"))
    \o Bytes(", 'shape': (")
    \o Concat([i \in 1..Len(a.Shape) |->
                 (IF i = 1 THEN <<>> ELSE Bytes(", ")) \o Itoa(a.Shape[i])])
    \o (IF Len(a.Shape) = 1 THEN Bytes(",") ELSE <<>>)
    \o Bytes("), }")

\* C17: Header text form.  For every array Write accepts (with one of the 11
\* tags as its DType), the dictionary text written is exactly
\* {'descr': '<token>', 'fortran_order': <True|False>, 'shape': (<dims>), }
\* with the dims joined by ", ", a trailing comma in the tuple for exactly one
\* dimension and none for any other number of dimensions, zero included, and
\* True exactly when Fortran is set; only padding follows it.
C17_HeaderTextForm ==
    (pc = "written" /\ werr = "" /\ written.DType \in DTypes)
    => /\ Len(headerBlock) > Len(textForm(written))
       /\ SubSeq(headerBlock, 1, Len(textForm(written))) = textForm(written)
       /\ \A i \in (Len(textForm(written)) + 1)..Len(headerBlock) :
            headerBlock[i] \in {SP, NL}

\* C18: Header decode requires all three fields.  For a header text that
\* holds a brace-delimited dictionary, parseHeader succeeds only if the shape
\* tuple, the descr token and the fortran_order literal are all present, and
\* then returns what they say; when exactly one of them is absent the error
\* names it; a text with no brace-delimited substring is an invalid header.
C18_AllFieldsRequired ==
    pc = "read"
    => /\ \A F \in SUBSET FieldNames, major \in {1, 2} :
            stream = Envelope(Magic, major, PartialDict(F), <<>>)
            => /\ rd.parsed
               /\ (rd.err = "") <=> (F = FieldNames)
               /\ rd.err = ""
                  => /\ rd.arr[1].Shape = <<2, 0>>
                     /\ rd.arr[1].DType = Int32
                     /\ rd.arr[1].Fortran
               /\ rd.err # "" => (rd.err = "failed to parse header" /\ rd.arr = <<>>)
               /\ F = FieldNames \ {"shape"} => rd.cause = "shape not found in header"
               /\ F = FieldNames \ {"descr"} => rd.cause = "dtype not found in header"
               /\ F = FieldNames \ {"fortran_order"}
                  => rd.cause = "fortran_order not found in header"
       /\ \A t \in NoBraceTexts :
            stream = Envelope(Magic, 1, t, <<>>)
            => /\ rd.err = "failed to parse header"
               /\ rd.cause = "invalid header format"
               /\ rd.arr = <<>>

\* C18 witness: a Read of a header that holds a descr and a shape and no
\* fortran_order fails with the error that names fortran_order
C18_Witness ==
    /\ pc = "read"
    /\ stream = Envelope(Magic, 1, PartialDict({"descr", "shape"}), <<>>)
    /\ rd.err = "failed to parse header"
    /\ rd.cause = "fortran_order not found in header"

(***************************************************************************)
(* The claims about the version and the extent of what Read consumes.      *)
(***************************************************************************)
\* the length field of a stream of major version 1 or 2 that holds it whole:
\* its size and the value its bytes declare
lengthField(s) ==
    LET n == IF s[7] = 1 THEN 2 ELSE 4
    IN  [size |-> n, declared |-> LEValue(SubSeq(s, 9, 8 + n))]

\* C19: Version handling in Read.  With major version 1 the header length is
\* the next 2 bytes, with major version 2 the next 4 bytes, little-endian;
\* any other major version fails with "unsupported version"; in the accepted
\* cases Read consumes exactly the header bytes the field declares, the full
\* value of the 4-byte field included, before it reads the element data.
C19_VersionHandling ==
    (pc = "read" /\ Len(stream) >= 8 /\ SubSeq(stream, 1, 6) = Magic)
    => /\ stream[7] \notin {1, 2}
          => rd.err = "unsupported version" /\ rd.arr = <<>>
       /\ (stream[7] \in {1, 2} /\ Len(stream) < 8 + (IF stream[7] = 1 THEN 2 ELSE 4))
          => rd.err = "failed to read header length"
       /\ (stream[7] \in {1, 2} /\ Len(stream) >= 8 + (IF stream[7] = 1 THEN 2 ELSE 4))
          => LET f == lengthField(stream)
                 after == 8 + f.size + f.declared
             IN  /\ rd.err # "unsupported version"
                 /\ rd.parsed <=> Len(stream) >= after
                 /\ ~rd.parsed => rd.err = "failed to read header"
                 /\ rd.err = "failed to parse header" => rd.pos = after
                 /\ rd.err = ""
                    => rd.pos = after + Len(rd.arr[1].Data) * sizeof(rd.T)

\* where the header block Read takes from an Enveloped stream ends
blockEnd(s) ==
    8 + lenFieldSize(s[7]) + uint16(LEValue(SubSeq(s, 9, 8 + lenFieldSize(s[7]))))

\* what parseHeader makes of the header block of an Enveloped stream
headerOfStream(s) == parseHeader(SubSeq(s, 9 + lenFieldSize(s[7]), blockEnd(s)))

\* C20: Data extent on decode.  After the header block, a successful Read
\* consumes exactly product(shape) * width(dtype) bytes, dtype being the type
\* recorded in the header; the returned Data has product(shape) elements; and
\* Read fails when fewer than that many bytes remain.
C20_DataExtent ==
    (pc = "read" /\ Enveloped(stream))
    => LET with(h) ==
               h.err = ""
               => LET total == totalElements(h.hdr.Shape)
                      need == total * sizeof(h.hdr.DType)
                  IN  /\ rd.err = ""
                         => /\ rd.pos = blockEnd(stream) + need
                            /\ Len(rd.arr[1].Data) = total
                      /\ Len(stream) - blockEnd(stream) < need
                         => /\ rd.err = "failed to read data"
                            /\ rd.arr = <<>>
       IN  with(headerOfStream(stream))

(***************************************************************************)
(* The claims about what Write leaves in the writer.                       *)
(***************************************************************************)
\* C21: Validation precedes output.  Whenever Write returns a validation
\* error (nil Data, nil Shape, empty DType, or len(Data) # product(Shape)),
\* zero bytes have been written; whenever Write succeeds, the bytes written
\* are, in this order, the 6-byte magic, the version bytes 1 and 0, the 2-byte
\* little-endian header length, the padded header text, and the elements in
\* the order of Data, whatever the Fortran flag.
C21_ValidationPrecedesOutput ==
    pc = "written"
    => /\ werr # ""
          => /\ stream = <<>>
             /\ werr \in {"array data is nil", "array shape is nil", "array dtype is empty",
                           "data length does not match shape dimensions"}
       /\ werr = ""
          => LET with(h) ==
                     LET w == sizeof(written.T)
                         n == Len(written.Data)
                         base == 10 + Len(h)
                     IN  /\ Len(stream) = base + n * w
                         /\ SubSeq(stream, 1, 6) = <<147, 78, 85, 77, 80, 89>>
                         /\ stream[7] = 1
                         /\ stream[8] = 0
                         /\ stream[9] + 256 * stream[10] = Len(h)
                         /\ SubSeq(stream, 11, base) = h
                         /\ \A i \in 1..n :
                               SubSeq(stream, base + (i - 1) * w + 1, base + i * w)
                                   = PutElem(written.T, written.Data[i])
             IN  with(paddedHeader(generateHeader(written)))

(***************************************************************************)
(* The claims about the two passes of ReadNPZFile.                         *)
(***************************************************************************)
\* the first pass over a member came to its call of parseHeader
headerParsed(f) == peekHeader(f.bytes).err \in {"", "failed to parse header"}

\* the member at position i is the first that ReadNPZFile cannot decode, it
\* can be opened twice, and its first 6 bytes are not the magic constant
firstBadMagic(i) ==
    /\ \A j \in fileMembers : j < i => ~memberFails(disk.files[j])
    /\ disk.files[i].opens >= 2
    /\ Len(disk.files[i].bytes) >= 6
    /\ SubSeq(disk.files[i].bytes, 1, 6) # Magic

\* C22: Two-pass member decode in ReadNPZFile.  The first pass applies the
\* envelope checks of the single-array decode, so a member whose first 6 bytes
\* are not the magic constant aborts the read with an invalid-magic error
\* and its header text is never parsed; for every well-formed member the dtype
\* found by the first pass is the DType of the array the second pass returns,
\* whose element type is the one of that dtype.
C22_TwoPassDecode ==
    (phase = "loaded" /\ loaded.path = DiskPath /\ disk.exists)
    => /\ \A i \in fileMembers :
            firstBadMagic(i)
            => /\ NothingLoaded
               /\ loaded.file = disk.files[i].name
               /\ ~headerParsed(disk.files[i])
               /\ \/ loaded.err = "invalid magic string"
                  \/ /\ loaded.err = "failed to read array"
                     /\ decode(disk.files[i]).err = "invalid magic string"
       /\ loaded.err = ""
          => \A i \in fileMembers :
                LET a == loadedNPZ.arrays[keyOf(i)]
                IN  /\ a.DType = peekHeader(disk.files[lastOf(i)].bytes).hdr.DType
                    /\ a.T = a.DType

(***************************************************************************)
(* The claims about the type registry.                                     *)
(***************************************************************************)
\* the eleven tags with the token the vocabulary gives each
Vocabulary ==
    {<<Bool, Bytes("|b1")>>, <<Int8, Bytes("|i1")>>, <<Int16, Bytes("<i2")>>,
     <<Int32, Bytes("<i4")>>, <<Int64, Bytes("<i8")>>, <<Uint8, Bytes("|u1")>>,
     <<Uint16, Bytes("<u2")>>, <<Uint32, Bytes("<u4")>>, <<Uint64, Bytes("<u8")>>,
     <<Float32, Bytes("<f4")>>, <<Float64, Bytes("<f8")>>}

\* the stream of a header with the descr token tok, shape (1,) and 8 data bytes
registryStream(tok) ==
    Envelope(Magic, 1, HeaderText(tok, Lit.false, Text.shape1), LittleEndian(8, 255))

\* C23: Type registry bijection.  The tag-to-token mapping of generateHeader
\* and the token-to-tag mapping of parseHeader are mutually inverse on the
\* recognised set: the token written for each of the 11 tags is the one of the
\* vocabulary and parses to that tag; each vocabulary token parses to a tag
\* for which that token is emitted; a token that differs from a vocabulary
\* token in its first byte only parses to the same tag; a kind letter with a
\* width digit not recorded for it fails.
C23_RegistryBijection ==
    /\ (pc = "written" /\ werr = "" /\ written.DType \in DTypes)
       => \E v \in Vocabulary :
            LET with(h) == h.err = "" /\ h.hdr.DType = written.DType
            IN  /\ v[1] = written.DType
                /\ descrOfStream(stream) = <<v[2]>>
                /\ with(headerOfStream(stream))
    /\ (pc = "read" /\ Enveloped(stream) /\ descrOfStream(stream) # <<>>)
       => LET with(tok) ==
                  (tok \in RegistryTokens /\ stream = registryStream(tok))
                  => /\ \A v \in Vocabulary :
                          SubSeq(tok, 2, 3) = SubSeq(v[2], 2, 3)
                          => /\ rd.err = ""
                             /\ rd.arr[1].DType = v[1]
                             /\ tok = v[2] => dtypeStrOf(rd.arr[1].DType) = tok
                     /\ (\A v \in Vocabulary : SubSeq(tok, 2, 3) # SubSeq(v[2], 2, 3))
                        => /\ rd.err = "failed to parse header"
                           /\ rd.cause = "unsupported dtype"
                           /\ rd.arr = <<>>
          IN  with(descrOfStream(stream)[1])

\* C23 witness: the token ">u2", which differs from the vocabulary token "<u2"
\* in its first byte only, was read as Uint16
C23_Witness ==
    /\ pc = "read"
    /\ stream = registryStream(Bytes(">u2"))
    /\ rd.err = ""
    /\ rd.arr[1].DType = Uint16

(***************************************************************************)
(* The claim about the header length field of Write.                       *)
(***************************************************************************)
\* C24: Header length field fidelity.  For every array that Write accepts,
\* the 2-byte little-endian header length it writes is the number of bytes of
\* the padded header text written after it, so that a Read at the element
\* type of the array finds the element data where Write put it.
C24_HeaderLengthFidelity ==
    /\ (pc = "written" /\ werr = "")
       => stream[9] + 256 * stream[10]
            = Len(stream) - 10 - Len(written.Data) * sizeof(written.T)
    /\ (pc = "read" /\ arr # <<>> /\ rd.T = written.T)
       => /\ rd.err = ""
          /\ rd.pos = Len(stream)
          /\ rd.arr[1].Data = written.Data

=============================================================================
